---- MODULE Spec2Model ----
(***************************************************************************)
(* socow_vector<T, SMALL_SIZE>: a vector with small-object optimisation    *)
(* and copy-on-write sharing of its heap buffer (src/socow-vector.h).      *)
(*                                                                         *)
(* Elements are values of 1..MaxVal; Raw marks a slot that holds no        *)
(* constructed element.  The element type's copy operations (copy          *)
(* construction, copy assignment) may throw: every operation takes a       *)
(* countdown k, and the k-th element copy it performs throws (k = 0: no    *)
(* copy throws).  The countdown travels in the field k of the machine      *)
(* state st that the operators below transform, together with the flag     *)
(* thrown (an exception is propagating) and ret (the last returned         *)
(* pointer or iterator index).                                             *)
(*                                                                         *)
(* A claim about an operation is stated on the operation's result: in      *)
(* every reachable state, for every input and every failure point, the     *)
(* state Before(k) and the state the operation turns it into are related   *)
(* as the claim says.                                                      *)
(***************************************************************************)
EXTENDS Integers, Sequences, FiniteSets, TLC

\* the template parameter SMALL_SIZE (THRESHOLD): elements held inline.
\* The vectors are socow_vector<T, 1>.  In this instantiation every slot
\* inside size() holds a constructed element in every reachable state, so
\* no operation reads a slot that holds none.
SMALL_SIZE == 1

\* push_back and insert are called on vectors of fewer than MaxSize elements
MaxSize == 2

\* the element values are 1..MaxVal
MaxVal == 2

\* reserve is called with 0..MaxReserve
MaxReserve == 3

\* the k-th element copy of an operation throws, k in 1..MaxFail (or none)
MaxFail == 4

\* addresses of heap buffers; the three vectors and one operation in
\* flight hold at most four at a time
NumBufs == 4

Raw == 0

NoBuf == 0

Vals == 1..MaxVal

Vecs == {"a", "b", "c"}

\* the local `copy` of operator= (line 24) and the local `copy` of swap (line 166)
Temps == {"copy", "swap_copy"}

AllVecs == Vecs \cup Temps

BufIds == 1..NumBufs

VARIABLES vec, heap

vars == <<vec, heap>>

RawSmall == [i \in 1..SMALL_SIZE |-> Raw]

\* storage that holds no socow_vector object
NoVec == [live |-> FALSE, small |-> TRUE, size |-> 0, sd |-> RawSmall, ld |-> NoBuf]

\* memory that holds no large_data_header
NoHeader == [alive |-> FALSE, capacity |-> 0, refcnt |-> 0, data |-> <<>>]

Min(x, y) == IF x < y THEN x ELSE y

Max(x, y) == IF x < y THEN y ELSE x

----------------------------------------------------------------------------
(* The element type: copies that may throw *)

\* the next element copy throws
CopyThrows(st) == st.k = 1

\* one element copy has succeeded
Copied(st) == [st EXCEPT !.k = IF @ > 1 THEN @ - 1 ELSE @]

Throw(st) == [st EXCEPT !.thrown = TRUE, !.k = 0]

----------------------------------------------------------------------------
(* Pointers to element arrays: small_data of a vector, or data_ of a header *)

SmallPtr(v) == [vec |-> v, buf |-> NoBuf]

BufPtr(id) == [vec |-> "", buf |-> id]

Deref(st, p) == IF p.buf = NoBuf THEN st.vec[p.vec].sd ELSE st.heap[p.buf].data

Store(st, p, i, x) ==
  IF p.buf = NoBuf THEN [st EXCEPT !.vec[p.vec].sd[i] = x]
  ELSE [st EXCEPT !.heap[p.buf].data[i] = x]

StoreAll(st, p, arr) ==
  IF p.buf = NoBuf THEN [st EXCEPT !.vec[p.vec].sd = arr]
  ELSE [st EXCEPT !.heap[p.buf].data = arr]

----------------------------------------------------------------------------
(* Private helpers of socow_vector *)

is_small(st, v) == st.vec[v].small

size(st, v) == st.vec[v].size

is_unique(st, v) == is_small(st, v) \/ st.heap[st.vec[v].ld].refcnt = 1

capacity(st, v) ==
  IF is_small(st, v) THEN SMALL_SIZE ELSE st.heap[st.vec[v].ld].capacity

\* T const* data() const
const_data(st, v) ==
  IF is_small(st, v) THEN SmallPtr(v) ELSE BufPtr(st.vec[v].ld)

\* destructs arr[off + cnt], ..., arr[off + 1], last first
RECURSIVE destruct_array(_, _, _)
destruct_array(arr, off, cnt) ==
  IF cnt = 0 THEN arr
  ELSE destruct_array([arr EXCEPT ![off + cnt] = Raw], off, cnt - 1)

\* the indices that destruct_array(arr + off, cnt) destructs, in the order
\* in which it destructs them
RECURSIVE destruct_order(_, _)
destruct_order(off, cnt) ==
  IF cnt = 0 THEN <<>>
  ELSE <<off + cnt>> \o destruct_order(off, cnt - 1)

\* safe_init_array whose catch block rethrows without destructing
RECURSIVE safe_init_loop_no_rollback(_, _, _, _, _)
safe_init_loop_no_rollback(src, dst, i, cnt, k) ==
  IF i = cnt THEN [dst |-> dst, thrown |-> FALSE, k |-> k, undone |-> <<>>]
  ELSE IF k = 1 THEN [dst |-> dst, thrown |-> TRUE, k |-> 0, undone |-> <<>>]
  ELSE safe_init_loop_no_rollback(src, [dst EXCEPT ![i + 1] = src[i + 1]],
                                  i + 1, cnt, IF k > 1 THEN k - 1 ELSE k)

\* the loop of safe_init_array with i elements already constructed in dst;
\* undone lists the elements of dst that the catch block destructed
RECURSIVE safe_init_loop(_, _, _, _, _)
safe_init_loop(src, dst, i, cnt, k) ==
  IF i = cnt THEN [dst |-> dst, thrown |-> FALSE, k |-> k, undone |-> <<>>]
  ELSE IF k = 1 THEN [dst |-> destruct_array(dst, 0, i), thrown |-> TRUE, k |-> 0,
                      undone |-> destruct_order(0, i)]
  ELSE safe_init_loop(src, [dst EXCEPT ![i + 1] = src[i + 1]], i + 1, cnt,
                      IF k > 1 THEN k - 1 ELSE k)

safe_init_array(src, dst, cnt, k) == safe_init_loop(src, dst, 0, cnt, k)

FreeIds(st) == {i \in BufIds : ~st.heap[i].alive}

\* operator new: the lowest free address
NewId(st) == CHOOSE i \in FreeIds(st) : \A j \in FreeIds(st) : i <= j

\* src is an element array (<<>> for nullptr); st.ret is the new header
alloc_large_data(st, src, sz, cap) ==
  LET id == NewId(st)
      r == safe_init_array(src, [i \in 1..cap |-> Raw], sz, st.k)
  IN IF r.thrown
       THEN [Throw(st) EXCEPT !.ret = NoBuf]
       ELSE [st EXCEPT !.heap[id] = [alive |-> TRUE, capacity |-> cap,
                                     refcnt |-> 1, data |-> r.dst],
                       !.k = r.k, !.ret = id]

make_new_ref(st, id) == [st EXCEPT !.heap[id].refcnt = @ + 1, !.ret = id]

release_large_data(st, id, sz) ==
  IF st.heap[id].refcnt - 1 = 0
    THEN [st EXCEPT !.heap[id] = NoHeader]
    ELSE [st EXCEPT !.heap[id].refcnt = @ - 1]

release_owned_large_data(st, v) ==
  release_large_data(st, st.vec[v].ld, size(st, v))

\* data() that hands out the shared buffer without a private copy
data_no_privatization(st, v) == st

\* data() whose private copy has room for the live elements only
data_tight_copy(st, v) ==
  IF is_small(st, v) \/ is_unique(st, v) THEN st
  ELSE LET old == st.vec[v].ld
           s1 == alloc_large_data(st, st.heap[old].data, size(st, v),
                                  size(st, v))
       IN IF s1.thrown THEN s1
          ELSE [release_owned_large_data(s1, v) EXCEPT !.vec[v].ld = s1.ret]

\* T* data(): the privatization point
data(st, v) ==
  IF is_small(st, v) \/ is_unique(st, v) THEN st
  ELSE LET old == st.vec[v].ld
           s1 == alloc_large_data(st, st.heap[old].data, size(st, v),
                                  st.heap[old].capacity)
       IN IF s1.thrown THEN s1
          ELSE [release_owned_large_data(s1, v) EXCEPT !.vec[v].ld = s1.ret]

\* destruct_array(data(), size())
destruct_data(st, v) ==
  LET s1 == data(st, v)
      p == const_data(s1, v)
  IN StoreAll(s1, p, destruct_array(Deref(s1, p), 0, size(s1, v)))

\* the body of ~socow_vector(); the storage of v stays
dtor(st, v) ==
  IF is_small(st, v) THEN destruct_data(st, v)
  ELSE release_owned_large_data(st, v)

\* the end of the lifetime of v: destructor, then the storage is gone
destroy(st, v) == [dtor(st, v) EXCEPT !.vec[v] = NoVec]

----------------------------------------------------------------------------
(* Construction and capacity *)

\* socow_vector(): v is storage without an object
default_ctor(st, v) == [st EXCEPT !.vec[v] = [NoVec EXCEPT !.live = TRUE]]

\* a copy constructor that copies the elements of a large source as well
copy_ctor_deep(st, v, other) ==
  LET o == st.vec[other]
      r == safe_init_array(o.sd, RawSmall, o.size, st.k)
      s1 == alloc_large_data(st, st.heap[o.ld].data, o.size,
                             st.heap[o.ld].capacity)
  IN IF o.small
       THEN IF r.thrown THEN Throw(st)
            ELSE [st EXCEPT !.vec[v] = [live |-> TRUE, small |-> TRUE,
                                        size |-> o.size, sd |-> r.dst,
                                        ld |-> NoBuf],
                            !.k = r.k]
       ELSE IF s1.thrown THEN s1
            ELSE [s1 EXCEPT !.vec[v] = [live |-> TRUE, small |-> FALSE,
                                        size |-> o.size, sd |-> RawSmall,
                                        ld |-> s1.ret]]

\* socow_vector(socow_vector const& other): v is storage without an object
copy_ctor(st, v, other) ==
  LET o == st.vec[other] IN
  IF o.small
    THEN LET r == safe_init_array(o.sd, RawSmall, o.size, st.k)
         IN IF r.thrown THEN Throw(st)
            ELSE [st EXCEPT !.vec[v] = [live |-> TRUE, small |-> TRUE,
                                        size |-> o.size, sd |-> r.dst,
                                        ld |-> NoBuf],
                            !.k = r.k]
    ELSE [make_new_ref(st, o.ld) EXCEPT
            !.vec[v] = [live |-> TRUE, small |-> FALSE, size |-> o.size,
                        sd |-> RawSmall, ld |-> o.ld]]

\* copy_to_small_data without the release of old_data at its end
copy_to_small_data_keeps_ref(st, v, begin, cnt) ==
  LET old_data == st.vec[v].ld
      s1 == make_new_ref(st, old_data)
      s2 == release_owned_large_data(s1, v)
      r == safe_init_array(Deref(s2, begin), RawSmall, cnt, s2.k)
  IN IF r.thrown
       THEN [Throw(s2) EXCEPT !.vec[v].ld = old_data]
       ELSE [s2 EXCEPT !.vec[v].sd = r.dst, !.vec[v].ld = NoBuf, !.k = r.k]

\* v is large; begin points to the cnt elements to put into v.small_data.
\* small_data and large_data share their storage: constructing small_data
\* overwrites large_data, which old_data remembers.
copy_to_small_data(st, v, begin, cnt) ==
  LET old_data == st.vec[v].ld
      s1 == make_new_ref(st, old_data)
      s2 == release_owned_large_data(s1, v)
      r == safe_init_array(Deref(s2, begin), RawSmall, cnt, s2.k)
  IN IF r.thrown
       THEN [Throw(s2) EXCEPT !.vec[v].ld = old_data]
       ELSE release_large_data(
              [s2 EXCEPT !.vec[v].sd = r.dst, !.vec[v].ld = NoBuf, !.k = r.k],
              old_data, size(s2, v))

switch_size_state(st, v) == [st EXCEPT !.vec[v].small = ~@]

\* set_large_state that leaves the state bit as it is
set_large_state_noop(st, v) == st

set_large_state(st, v) == [st EXCEPT !.vec[v].small = FALSE]

\* large_data = p: the pointer takes the place of small_data in the union
set_large_data(st, v, p) == [st EXCEPT !.vec[v].ld = p, !.vec[v].sd = RawSmall]

\* resize that allocates one slot more than it was asked for
resize_with_slack(st, v, new_capacity) ==
  IF new_capacity <= SMALL_SIZE
    THEN LET s1 == copy_to_small_data(st, v, BufPtr(st.vec[v].ld), size(st, v))
         IN IF s1.thrown THEN s1 ELSE switch_size_state(s1, v)
    ELSE LET s1 == data(st, v)
             s2 == alloc_large_data(s1, Deref(s1, const_data(s1, v)),
                                    size(s1, v), new_capacity + 1)
             s3 == set_large_data(dtor(s2, v), v, s2.ret)
         IN IF s1.thrown THEN s1
            ELSE IF s2.thrown THEN s2
            ELSE IF is_small(s3, v) THEN switch_size_state(s3, v) ELSE s3

\* resize without the branch that moves the elements to small_data
resize_never_small(st, v, new_capacity) ==
  LET s1 == data(st, v)
      s2 == alloc_large_data(s1, Deref(s1, const_data(s1, v)),
                             size(s1, v), new_capacity)
      s3 == set_large_data(dtor(s2, v), v, s2.ret)
  IN IF s1.thrown THEN s1
     ELSE IF s2.thrown THEN s2
     ELSE IF is_small(s3, v) THEN switch_size_state(s3, v) ELSE s3

resize(st, v, new_capacity) ==
  IF new_capacity <= SMALL_SIZE
    THEN LET s1 == copy_to_small_data(st, v, BufPtr(st.vec[v].ld), size(st, v))
         IN IF s1.thrown THEN s1 ELSE switch_size_state(s1, v)
    ELSE LET s1 == data(st, v)
             s2 == alloc_large_data(s1, Deref(s1, const_data(s1, v)),
                                    size(s1, v), new_capacity)
             s3 == set_large_data(dtor(s2, v), v, s2.ret)
         IN IF s1.thrown THEN s1
            ELSE IF s2.thrown THEN s2
            ELSE IF is_small(s3, v) THEN switch_size_state(s3, v) ELSE s3

\* reserve that reallocates a large vector whenever more than size() is asked
\* for, whether or not its buffer is unique
reserve_ignores_unique(st, v, new_capacity) ==
  IF (~is_small(st, v) /\ new_capacity > size(st, v))
     \/ new_capacity > capacity(st, v)
    THEN resize(st, v, new_capacity)
    ELSE st

\* reserve that also reallocates a shared buffer when exactly size() is asked for
reserve_at_size(st, v, new_capacity) ==
  IF (~is_unique(st, v) /\ new_capacity >= size(st, v))
     \/ new_capacity > capacity(st, v)
    THEN resize(st, v, new_capacity)
    ELSE st

reserve(st, v, new_capacity) ==
  IF (~is_unique(st, v) /\ new_capacity > size(st, v))
     \/ new_capacity > capacity(st, v)
    THEN resize(st, v, new_capacity)
    ELSE st

\* shrink_to_fit that leaves a large vector of few elements large
shrink_to_fit_large_only(st, v) ==
  IF ~is_small(st, v) /\ size(st, v) # st.heap[st.vec[v].ld].capacity
     /\ size(st, v) > SMALL_SIZE
    THEN resize(st, v, size(st, v))
    ELSE st

shrink_to_fit(st, v) ==
  IF ~is_small(st, v) /\ size(st, v) # st.heap[st.vec[v].ld].capacity
    THEN resize(st, v, size(st, v))
    ELSE st

\* clear that privatizes a shared buffer by copy before it destructs
clear_by_copy(st, v) ==
  LET s1 == data(st, v)
  IN IF s1.thrown THEN s1
     ELSE [destruct_data(s1, v) EXCEPT !.vec[v].size = 0]

clear(st, v) ==
  IF is_unique(st, v)
    THEN [destruct_data(st, v) EXCEPT !.vec[v].size = 0]
    ELSE LET s1 == release_owned_large_data(st, v)
             s2 == alloc_large_data(s1, <<>>, 0, capacity(s1, v))
         IN [s2 EXCEPT !.vec[v].ld = s2.ret, !.vec[v].size = 0,
                       !.vec[v].small = FALSE]

\* push_back that counts the new element before it constructs it
push_back_counts_first(st, v, value) ==
  LET cur_size == size(st, v)
      cur_cap == capacity(st, v)
  IN IF cur_size = cur_cap
       THEN LET s1 == alloc_large_data(st, Deref(st, const_data(st, v)),
                                       cur_size, 2 * cur_cap + 1)
                new_data == s1.ret
                s2 == Store(Copied(s1), BufPtr(new_data), cur_size + 1, value)
                s3 == set_large_state(set_large_data(dtor(s2, v), v, new_data), v)
            IN IF s1.thrown THEN s1
               ELSE IF CopyThrows(s1)
                 THEN Throw(release_large_data(s1, new_data, cur_size))
               ELSE [s3 EXCEPT !.vec[v].size = @ + 1]
       ELSE LET s1 == data(st, v)
                s2 == Store(Copied(s1), const_data(s1, v), cur_size + 1, value)
            IN IF s1.thrown THEN s1
               ELSE IF CopyThrows(s1)
                 THEN [Throw(s1) EXCEPT !.vec[v].size = @ + 1]
               ELSE [s2 EXCEPT !.vec[v].size = @ + 1]

push_back(st, v, value) ==
  LET cur_size == size(st, v)
      cur_cap == capacity(st, v)
  IN IF cur_size = cur_cap
       THEN LET s1 == alloc_large_data(st, Deref(st, const_data(st, v)),
                                       cur_size, 2 * cur_cap + 1)
                new_data == s1.ret
                s2 == Store(Copied(s1), BufPtr(new_data), cur_size + 1, value)
                s3 == set_large_state(set_large_data(dtor(s2, v), v, new_data), v)
            IN IF s1.thrown THEN s1
               ELSE IF CopyThrows(s1)
                 THEN Throw(release_large_data(s1, new_data, cur_size))
               ELSE [s3 EXCEPT !.vec[v].size = @ + 1]
       ELSE LET s1 == data(st, v)
                s2 == Store(Copied(s1), const_data(s1, v), cur_size + 1, value)
            IN IF s1.thrown THEN s1
               ELSE IF CopyThrows(s1) THEN Throw(s1)
               ELSE [s2 EXCEPT !.vec[v].size = @ + 1]

\* pop_back that destructs the last element in the buffer it finds
pop_back_in_place(st, v) ==
  LET s2 == Store(st, const_data(st, v), size(st, v), Raw)
  IN [s2 EXCEPT !.vec[v].size = @ - 1]

pop_back(st, v) ==
  LET s1 == data(st, v)
      s2 == Store(s1, const_data(s1, v), size(s1, v), Raw)
  IN IF s1.thrown THEN s1 ELSE [s2 EXCEPT !.vec[v].size = @ - 1]

----------------------------------------------------------------------------
(* swap, assignment, insert, erase *)

\* std::swap(p[i], q[j]) for an element type without move operations:
\* T tmp(a); a = b; b = tmp;  each of the three is an element copy.
\* A copy assignment that throws leaves its target as it was.
std_swap(st, p, i, q, j) ==
  LET tmp == Deref(st, p)[i]
      s1 == Copied(st)
      s2 == Store(Copied(s1), p, i, Deref(s1, q)[j])
      s3 == Store(Copied(s2), q, j, tmp)
  IN IF CopyThrows(st) THEN Throw(st)
     ELSE IF CopyThrows(s1) THEN Throw(s1)
     ELSE IF CopyThrows(s2) THEN Throw(s2)
     ELSE s3

\* for (i = 0; i < cnt; i++) std::swap(small_data[i], other.small_data[i])
RECURSIVE swap_common(_, _, _, _, _)
swap_common(st, v, other, i, cnt) ==
  IF st.thrown \/ i = cnt THEN st
  ELSE swap_common(std_swap(st, SmallPtr(v), i + 1, SmallPtr(other), i + 1),
                   v, other, i + 1, cnt)

\* for (i = max; i > cnt; i--) { new (dst + i - 1) T(src[i - 1]); src[i - 1].~T(); }
RECURSIVE swap_rest(_, _, _, _, _)
swap_rest(st, dst, src, i, cnt) ==
  IF st.thrown \/ i <= cnt THEN st
  ELSE IF CopyThrows(st) THEN Throw(st)
  ELSE swap_rest(Store(Store(Copied(st), dst, i, Deref(st, src)[i]), src, i, Raw),
                 dst, src, i - 1, cnt)

\* an exchange of the counts that leaves the state bits where they are
swap_size_counts_only(st, v, other) ==
  [st EXCEPT !.vec[v].size = st.vec[other].size,
             !.vec[other].size = st.vec[v].size]

\* std::swap(size_, other.size_): the count and the state bit
swap_size(st, v, other) ==
  [st EXCEPT !.vec[v].size = st.vec[other].size,
             !.vec[v].small = st.vec[other].small,
             !.vec[other].size = st.vec[v].size,
             !.vec[other].small = st.vec[v].small]

RECURSIVE swap(_, _, _)
swap(st, v, other) ==
  IF v = other THEN st
  ELSE IF is_small(st, v)
    THEN IF is_small(st, other)
      THEN LET cnt == Min(size(st, v), size(st, other))
               s1 == swap_common(st, v, other, 0, cnt)
               dst == IF size(st, v) > size(st, other) THEN SmallPtr(other)
                      ELSE SmallPtr(v)
               src == IF size(st, v) > size(st, other) THEN SmallPtr(v)
                      ELSE SmallPtr(other)
               s2 == swap_rest(s1, dst, src,
                               Max(size(st, v), size(st, other)), cnt)
           IN IF s2.thrown THEN s2 ELSE swap_size(s2, v, other)
      ELSE LET s1 == copy_ctor(st, "swap_copy", other)
               s2 == copy_to_small_data(s1, other, SmallPtr(v), size(s1, v))
               s3 == destruct_data(s2, v)
               s4 == make_new_ref(s3, s3.vec["swap_copy"].ld)
               s5 == set_large_data(s4, v, s4.ret)
           IN IF s2.thrown THEN destroy(s2, "swap_copy")
              ELSE destroy(swap_size(s5, v, other), "swap_copy")
    ELSE IF ~is_small(st, other)
      THEN swap_size([st EXCEPT !.vec[v].ld = st.vec[other].ld,
                                !.vec[other].ld = st.vec[v].ld], v, other)
      ELSE swap(st, other, v)

\* operator=
assign(st, v, other) ==
  IF v = other THEN st
  ELSE LET s1 == copy_ctor(st, "copy", other)
       IN IF s1.thrown THEN s1
          ELSE destroy(swap(s1, v, "copy"), "copy")

\* the loop of insert stopping one exchange short of pos
RECURSIVE insert_loop_one_short(_, _, _, _)
insert_loop_one_short(st, v, wpos, pos) ==
  IF st.thrown \/ wpos <= pos + 1 THEN [st EXCEPT !.ret = wpos]
  ELSE insert_loop_one_short(std_swap(st, const_data(st, v), wpos + 1,
                                      const_data(st, v), wpos),
                             v, wpos - 1, pos)

\* for (; wpos != pos; wpos--) std::swap(*wpos, *(wpos - 1)); indices from 0
RECURSIVE insert_loop(_, _, _, _)
insert_loop(st, v, wpos, pos) ==
  IF st.thrown \/ wpos = pos THEN [st EXCEPT !.ret = wpos]
  ELSE insert_loop(std_swap(st, const_data(st, v), wpos + 1,
                            const_data(st, v), wpos),
                   v, wpos - 1, pos)

insert(st, v, index, value) ==
  LET s1 == push_back(st, v, value)
      s2 == data(s1, v)
  IN IF s1.thrown THEN s1
     ELSE IF s2.thrown THEN s2
     ELSE insert_loop(s2, v, size(s2, v) - 1, index)

\* for (; pos != end(); pos++) { res = pos - len; std::swap(*pos, *(pos - len)); }
RECURSIVE erase_loop(_, _, _, _)
erase_loop(st, v, pos, len) ==
  IF st.thrown \/ pos = size(st, v) THEN st
  ELSE erase_loop([std_swap(st, const_data(st, v), pos + 1,
                            const_data(st, v), pos - len + 1)
                     EXCEPT !.ret = pos - len],
                  v, pos + 1, len)

\* erase(first, last) with ind = first - begin(), len = last - first
erase(st, v, ind, len) ==
  LET s1 == data(st, v)
      s2 == erase_loop([s1 EXCEPT !.ret = size(s1, v)], v, ind + len, len)
      p == const_data(s2, v)
      s3 == StoreAll(s2, p, destruct_array(Deref(s2, p), size(s2, v) - len, len))
  IN IF s1.thrown THEN s1
     ELSE IF s2.thrown THEN s2
     ELSE [s3 EXCEPT !.vec[v].size = @ - len]

\* T& r = v[i]; r = value;  with the mutable operator[], which calls data().
\* The store through the reference is the caller's; it is not made to throw.
subscript_store(st, v, i, value) ==
  LET s1 == data(st, v)
  IN IF s1.thrown THEN s1
     ELSE Store(s1, const_data(s1, v), i + 1, value)

----------------------------------------------------------------------------
(* The program: three vectors a, b, c that a caller constructs, copies,    *)
(* mutates and destroys.  Each action is one complete public operation.    *)

\* the machine state before an operation in which the k-th element copy throws
Before(k) == [vec |-> vec, heap |-> heap, k |-> k, thrown |-> FALSE, ret |-> 0]

\* Which address operator new returns is the allocator's choice, and no
\* operation looks at an address except to follow it or to compare it with
\* another: the state is kept up to a renaming of the addresses, the
\* buffer of a (if any) first, then the buffer of b, then that of c.
VecOrder == <<"a", "b", "c">>

FirstUser(st, id) ==
  LET users == {n \in 1..Len(VecOrder) :
                  /\ st.vec[VecOrder[n]].live
                  /\ ~st.vec[VecOrder[n]].small
                  /\ st.vec[VecOrder[n]].ld = id}
  IN IF users = {} THEN Len(VecOrder) + id
     ELSE CHOOSE n \in users : \A m \in users : n <= m

Addresses(rank) ==
  [id \in BufIds |-> Cardinality({j \in BufIds : rank[j] < rank[id]}) + 1]

Rename(st, address) ==
  [st EXCEPT
     !.vec = [v \in AllVecs |->
                [st.vec[v] EXCEPT !.ld = IF @ = NoBuf THEN NoBuf ELSE address[@]]],
     !.heap = [i \in BufIds |-> st.heap[CHOOSE j \in BufIds : address[j] = i]]]

Renamed(st) ==
  CHOOSE out \in {Rename(st, address) :
                    address \in {Addresses(rank) :
                      rank \in {[id \in BufIds |-> FirstUser(st, id)]}}} : TRUE

\* the operation has ended in r (with r.thrown: by an exception)
After(r) ==
  \E end \in {r} :
    \E n \in {Renamed(end)} :
      /\ vec' = n.vec
      /\ heap' = n.heap

Live(v) == vec[v].live

Fails == 0..MaxFail

Init ==
  /\ vec = [v \in AllVecs |-> NoVec]
  /\ heap = [i \in BufIds |-> NoHeader]

Construct(v) ==
  /\ ~Live(v)
  /\ After(default_ctor(Before(0), v))

CopyConstruct(v, w, k) ==
  /\ ~Live(v) /\ Live(w)
  /\ After(copy_ctor(Before(k), v, w))

Assign(v, w, k) ==
  /\ Live(v) /\ Live(w)
  /\ After(assign(Before(k), v, w))

Destroy(v) ==
  /\ Live(v)
  /\ After(destroy(Before(0), v))

SubscriptStore(v, i, x, k) ==
  /\ Live(v) /\ i < vec[v].size
  /\ After(subscript_store(Before(k), v, i, x))

PushBack(v, x, k) ==
  /\ Live(v) /\ vec[v].size < MaxSize
  /\ After(push_back(Before(k), v, x))

PopBack(v, k) ==
  /\ Live(v) /\ vec[v].size > 0
  /\ After(pop_back(Before(k), v))

Insert(v, i, x, k) ==
  /\ Live(v) /\ vec[v].size < MaxSize /\ i <= vec[v].size
  /\ After(insert(Before(k), v, i, x))

Erase(v, i, len, k) ==
  /\ Live(v) /\ i + len <= vec[v].size
  /\ After(erase(Before(k), v, i, len))

Reserve(v, n, k) ==
  /\ Live(v)
  /\ After(reserve(Before(k), v, n))

ShrinkToFit(v, k) ==
  /\ Live(v)
  /\ After(shrink_to_fit(Before(k), v))

Clear(v) ==
  /\ Live(v)
  /\ After(clear(Before(0), v))

Swap(v, w, k) ==
  /\ Live(v) /\ Live(w)
  /\ After(swap(Before(k), v, w))

Next ==
  \/ \E v \in Vecs : Construct(v)
  \/ \E v, w \in Vecs, k \in Fails : CopyConstruct(v, w, k)
  \/ \E v, w \in Vecs, k \in Fails : Assign(v, w, k)
  \/ \E v \in Vecs : Destroy(v)
  \/ \E v \in Vecs, i \in 0..MaxSize, x \in Vals, k \in Fails : SubscriptStore(v, i, x, k)
  \/ \E v \in Vecs, x \in Vals, k \in Fails : PushBack(v, x, k)
  \/ \E v \in Vecs, k \in Fails : PopBack(v, k)
  \/ \E v \in Vecs, i \in 0..MaxSize, x \in Vals, k \in Fails : Insert(v, i, x, k)
  \/ \E v \in Vecs, i \in 0..MaxSize, len \in 0..MaxSize, k \in Fails : Erase(v, i, len, k)
  \/ \E v \in Vecs, n \in 0..MaxReserve, k \in Fails : Reserve(v, n, k)
  \/ \E v \in Vecs, k \in Fails : ShrinkToFit(v, k)
  \/ \E v \in Vecs : Clear(v)
  \/ \E v, w \in Vecs, k \in Fails : Swap(v, w, k)

Spec == Init /\ [][Next]_vars

----------------------------------------------------------------------------
(* What a caller observes, and the results of the calls a state allows *)

\* the current state as a machine state
Cur == Before(0)

\* the elements of v, first to last, read through the const data()
Content(st, v) ==
  [i \in 1..size(st, v) |-> Deref(st, const_data(st, v))[i]]

LiveVecs == {v \in Vecs : Live(v)}

Shared(st, v) == st.vec[v].live /\ ~is_small(st, v)

\* v and w are large and hold the same buffer
SameBuffer(st, v, w) ==
  Shared(st, v) /\ Shared(st, w) /\ st.vec[v].ld = st.vec[w].ld

\* every vector outside targets is as it was before the operation
Untouched(r, targets) ==
  \A w \in LiveVecs \ targets :
    r.vec[w].live /\ Content(r, w) = Content(Cur, w)

\* the results of the mutating operations on v that involve no other vector
Mutations(v) ==
  {subscript_store(Before(k), v, i, x) :
     i \in 0..(vec[v].size - 1), x \in Vals, k \in Fails}
  \cup (IF vec[v].size < MaxSize
          THEN {push_back(Before(k), v, x) : x \in Vals, k \in Fails}
               \cup {insert(Before(k), v, i, x) :
                       i \in 0..vec[v].size, x \in Vals, k \in Fails}
          ELSE {})
  \cup (IF vec[v].size > 0 THEN {pop_back(Before(k), v) : k \in Fails} ELSE {})
  \cup UNION {{erase(Before(k), v, i, len) : len \in 0..(vec[v].size - i), k \in Fails} :
                i \in 0..vec[v].size}
  \cup {reserve(Before(k), v, n) : n \in 0..MaxReserve, k \in Fails}
  \cup {shrink_to_fit(Before(k), v) : k \in Fails}
  \cup {clear(Cur, v), destroy(Cur, v)}

----------------------------------------------------------------------------
(* The claims *)

\* C1: value semantics under sharing.  Whatever mutating operation is
\* applied to a vector v (mutable access with a store, push_back, pop_back,
\* insert, erase, clear, reserve, shrink_to_fit, destruction, assignment to
\* v, swap of v with another vector u), whether it completes or throws,
\* every other live vector w (a copy of v sharing its buffer or not; for a
\* swap every w other than v and u) keeps its size and its elements.
C1_ValueSemantics ==
  \A v \in LiveVecs :
    /\ \A r \in Mutations(v) : Untouched(r, {v})
    /\ \A u \in LiveVecs, k \in Fails :
         /\ Untouched(assign(Before(k), v, u), {v})
         /\ Untouched(swap(Before(k), v, u), {v, u})

\* C1 witness: w shares the buffer of v, and an operation on v changes the
\* elements of v and leaves those of w
C1_Witness ==
  \E v \in LiveVecs, w \in LiveVecs :
    /\ v # w /\ SameBuffer(Cur, v, w)
    /\ \E r \in Mutations(v) :
         /\ ~r.thrown /\ r.vec[v].live
         /\ Content(r, v) # Content(Cur, v)
         /\ Content(r, w) = Content(Cur, w)

\* the reference dynamic array
RefInsert(seq, i, x) == SubSeq(seq, 1, i) \o <<x>> \o SubSeq(seq, i + 1, Len(seq))

RefErase(seq, i, len) == SubSeq(seq, 1, i) \o SubSeq(seq, i + len + 1, Len(seq))

\* C2: reference-model equivalence.  A push_back, pop_back, insert or erase
\* that does not throw turns the elements of the vector into what the same
\* call makes of a plain sequence (so the size is the number of elements
\* added minus the number removed), whether the vector is small or large and
\* whether its buffer is shared.
C2_ReferenceModel ==
  \A v \in LiveVecs, k \in Fails :
    LET old == Content(Cur, v) IN
    /\ vec[v].size < MaxSize =>
         \A x \in Vals :
           /\ \A r \in {push_back(Before(k), v, x)} :
                ~r.thrown => Content(r, v) = Append(old, x)
           /\ \A i \in 0..vec[v].size :
                \A r \in {insert(Before(k), v, i, x)} :
                  ~r.thrown => Content(r, v) = RefInsert(old, i, x)
    /\ vec[v].size > 0 =>
         \A r \in {pop_back(Before(k), v)} :
           ~r.thrown => Content(r, v) = SubSeq(old, 1, Len(old) - 1)
    /\ \A i \in 0..vec[v].size, len \in 0..MaxSize :
         i + len <= vec[v].size =>
           \A r \in {erase(Before(k), v, i, len)} :
             ~r.thrown => Content(r, v) = RefErase(old, i, len)

\* C2 witness: a large vector whose buffer is shared and that holds two
\* different elements takes an insert in front and an erase of its first
\* element
C2_Witness ==
  \E v \in LiveVecs, w \in LiveVecs :
    /\ v # w /\ SameBuffer(Cur, v, w)
    /\ vec[v].size = 1
    /\ \E x \in Vals :
         /\ ~insert(Cur, v, 0, x).thrown
         /\ Content(insert(Cur, v, 0, x), v) = <<x>> \o Content(Cur, v)
         /\ Content(insert(Cur, v, 0, x), v)[1] # Content(insert(Cur, v, 0, x), v)[2]
         /\ Content(erase(insert(Cur, v, 0, x), v, 0, 1), v) = Content(Cur, v)

\* the vectors that hold buffer id
Holders(id) == {v \in Vecs : Shared(Cur, v) /\ vec[v].ld = id}

\* C3: the reference-count invariant.  After every operation, also one that
\* an exception ended: the refcnt of each live buffer is the number of large
\* vectors that point to it and is at least 1 (so no buffer is left alive
\* without a vector), each large vector points to a live buffer, a small
\* vector points to none, and the locals of the operations are gone.
C3_RefCount ==
  /\ \A id \in BufIds :
       heap[id].alive =>
         heap[id].refcnt = Cardinality(Holders(id)) /\ heap[id].refcnt >= 1
  /\ \A v \in Vecs :
       /\ Shared(Cur, v) => vec[v].ld \in BufIds /\ heap[vec[v].ld].alive
       /\ Live(v) /\ vec[v].small => vec[v].ld = NoBuf
  /\ \A t \in Temps : ~Live(t)

\* C3 witness: a buffer held by two vectors and a buffer held by one, in a
\* state from which a push_back throws after it has allocated
C3_Witness ==
  /\ \E id \in BufIds : heap[id].alive /\ heap[id].refcnt = 2
  /\ \E id \in BufIds : heap[id].alive /\ heap[id].refcnt = 1
  /\ \E v \in LiveVecs, x \in Vals :
       vec[v].size < MaxSize /\ push_back(Before(2), v, x).thrown

\* C4: copy construction.  From a large source: it cannot throw, whichever
\* element copy is set to fail, it copies no element and allocates no
\* buffer, it adds exactly 1 to the refcnt of the source's buffer, and the
\* new vector is large, of the same size, on the same buffer.  From a small
\* source, if no copy throws: the new vector is small and holds copies of
\* the source's elements, and the heap is as before.
C4_CopyConstruct ==
  \A v \in Vecs \ LiveVecs, w \in LiveVecs, k \in Fails :
    \A r \in {copy_ctor(Before(k), v, w)} :
      IF vec[w].small
        THEN ~r.thrown =>
               /\ r.vec[v].live /\ r.vec[v].small
               /\ Content(r, v) = Content(Cur, w)
               /\ r.heap = heap
        ELSE /\ ~r.thrown /\ r.k = k
             /\ r.vec[v].live /\ ~r.vec[v].small
             /\ r.vec[v].size = vec[w].size
             /\ r.vec[v].ld = vec[w].ld
             /\ r.heap = [heap EXCEPT ![vec[w].ld].refcnt = @ + 1]
             /\ r.vec[w] = vec[w]

\* C4 witness: a copy of a large vector while the first element copy is set
\* to fail, and a copy of a small non-empty vector
C4_Witness ==
  /\ \E v \in Vecs \ LiveVecs, w \in LiveVecs :
       /\ ~vec[w].small /\ vec[w].size > 0
       /\ ~copy_ctor(Before(1), v, w).thrown
       /\ SameBuffer(copy_ctor(Before(1), v, w), v, w)
  /\ \E v \in Vecs \ LiveVecs, w \in LiveVecs :
       /\ vec[w].small /\ vec[w].size > 0
       /\ copy_ctor(Cur, v, w).vec[v].small

\* C5: copy assignment has the strong guarantee.  For every pair of modes
\* of target v and source w and every failure point, either v = w completes
\* and v has the elements of w, or it throws and v has the elements it had;
\* w is unchanged.
C5_AssignStrong ==
  \A v \in LiveVecs, w \in LiveVecs, k \in Fails :
    \A r \in {assign(Before(k), v, w)} :
      /\ Content(r, w) = Content(Cur, w)
      /\ IF r.thrown THEN Content(r, v) = Content(Cur, v)
         ELSE Content(r, v) = Content(Cur, w)

\* C6: swap never fails.  For every pair of modes and every element copy set
\* to fail, v.swap(w) completes without an exception.
C6_SwapNeverFails ==
  \A v \in LiveVecs, w \in LiveVecs, k \in Fails :
    ~swap(Before(k), v, w).thrown

\* C7: swap exchanges the two values completely.  After v.swap(w) that does
\* not throw, v has the former size, elements, mode and capacity of w and w
\* those of v (also when v and w are the same vector); a formerly large side
\* hands over its very buffer; every third vector keeps its elements; every
\* buffer is alive as before with the refcnt it had.
C7_SwapExchanges ==
  \A v \in LiveVecs, w \in LiveVecs, k \in Fails :
    \A r \in {swap(Before(k), v, w)} :
      ~r.thrown =>
        /\ Content(r, v) = Content(Cur, w)
        /\ Content(r, w) = Content(Cur, v)
        /\ is_small(r, v) = is_small(Cur, w)
        /\ is_small(r, w) = is_small(Cur, v)
        /\ capacity(r, v) = capacity(Cur, w)
        /\ capacity(r, w) = capacity(Cur, v)
        /\ ~is_small(Cur, w) => r.vec[v].ld = vec[w].ld
        /\ ~is_small(Cur, v) => r.vec[w].ld = vec[v].ld
        /\ Untouched(r, {v, w})
        /\ \A id \in BufIds :
             /\ r.heap[id].alive = heap[id].alive
             /\ r.heap[id].refcnt = heap[id].refcnt

\* C7 witness: a small non-empty vector is swapped with a large one whose
\* buffer a third vector shares; the small one takes over the shared buffer
C7_Witness ==
  \E v \in LiveVecs, w \in LiveVecs, u \in LiveVecs :
    /\ v # w /\ u # v /\ u # w
    /\ vec[v].small /\ vec[v].size > 0
    /\ SameBuffer(Cur, w, u)
    /\ ~swap(Cur, v, w).thrown
    /\ SameBuffer(swap(Cur, v, w), v, u)
    /\ is_small(swap(Cur, v, w), w)
    /\ Content(swap(Cur, v, w), w) = Content(Cur, v)

\* the buffers that r holds and the current state does not
Fresh(r) == {id \in BufIds : r.heap[id].alive /\ ~heap[id].alive}

\* what every push_back that throws leaves as it was: the elements, mode and
\* capacity of v, every other vector, and every buffer that was alive
PushBackKeeps(r, v) ==
  /\ Content(r, v) = Content(Cur, v)
  /\ is_small(r, v) = is_small(Cur, v)
  /\ capacity(r, v) = capacity(Cur, v)
  /\ \A w \in Vecs \ {v} : r.vec[w] = vec[w]
  /\ \A id \in BufIds :
       heap[id].alive => r.heap[id].alive /\ r.heap[id].data = heap[id].data

\* C8 as claimed: if an element copy fails at any point of push_back, the
\* size, elements and capacity of the vector are those before the call, every
\* other vector is unchanged, and the newly allocated buffer (if any) has
\* been released.
C8_PushBackReleasesNew ==
  \A v \in LiveVecs, x \in Vals, k \in Fails :
    vec[v].size < MaxSize =>
      \A r \in {push_back(Before(k), v, x)} :
        r.thrown => PushBackKeeps(r, v) /\ Fresh(r) = {}

\* C8 as amended: if an element copy fails at any point of push_back, the
\* size, elements and capacity of the vector are those before the call and
\* every other vector is unchanged.  The newly allocated buffer has been
\* released, except when the vector was not full and shared its buffer and
\* the construction of the new element is what failed: then the vector
\* keeps the private copy that data() made (refcnt 1, same capacity and
\* elements) and has given up its reference to the shared buffer.
C8_PushBackStrong ==
  \A v \in LiveVecs, x \in Vals, k \in Fails :
    vec[v].size < MaxSize =>
      \A r \in {push_back(Before(k), v, x)} :
        r.thrown =>
          /\ PushBackKeeps(r, v)
          /\ IF ~is_unique(Cur, v) /\ size(Cur, v) < capacity(Cur, v)
                /\ k = size(Cur, v) + 1
               THEN /\ Fresh(r) = {r.vec[v].ld}
                    /\ r.heap[r.vec[v].ld].refcnt = 1
                    /\ r.heap[vec[v].ld].refcnt = heap[vec[v].ld].refcnt - 1
               ELSE /\ Fresh(r) = {}
                    /\ r.heap = heap /\ r.vec = vec

\* C8 witness: push_back throws while it copies into the grown buffer and
\* while it constructs the new element there (a full small vector), and
\* while it privatizes and after it has privatized (a shared buffer)
C8_Witness ==
  /\ \E v \in LiveVecs, x \in Vals :
       /\ vec[v].small /\ vec[v].size = SMALL_SIZE /\ SMALL_SIZE < MaxSize
       /\ push_back(Before(1), v, x).thrown
       /\ push_back(Before(SMALL_SIZE + 1), v, x).thrown
  /\ \E v \in LiveVecs, x \in Vals :
       /\ ~is_unique(Cur, v) /\ vec[v].size > 0 /\ vec[v].size < MaxSize
       /\ push_back(Before(1), v, x).thrown
       /\ push_back(Before(vec[v].size + 1), v, x).thrown
       /\ Fresh(push_back(Before(vec[v].size + 1), v, x)) # {}

\* C9: insert has the failure guarantee of push_back.  If an element copy
\* fails at any point of insert(pos, v), in the append or in one of the
\* exchanges that bring the new element to pos, the size and the elements
\* of the vector are those before the call.
C9_InsertStrong ==
  \A v \in LiveVecs, x \in Vals, k \in Fails :
    vec[v].size < MaxSize =>
      \A i \in 0..vec[v].size :
        \A r \in {insert(Before(k), v, i, x)} :
          r.thrown => Content(r, v) = Content(Cur, v)

\* C10 as claimed: after a shrink_to_fit that does not throw, on any vector
\* of any size, capacity() = size().
C10_ShrinkCapacityIsSize ==
  \A v \in LiveVecs, k \in Fails :
    \A r \in {shrink_to_fit(Before(k), v)} :
      ~r.thrown => capacity(r, v) = size(r, v)

\* C10 as amended: after a shrink_to_fit that does not throw, capacity() =
\* size() if the vector was large and holds more than SMALL_SIZE elements;
\* a large vector of at most SMALL_SIZE elements has become small, with
\* capacity SMALL_SIZE; a small vector is left as it was, with capacity
\* SMALL_SIZE.  The size and the elements are unchanged.
C10_ShrinkCapacity ==
  \A v \in LiveVecs, k \in Fails :
    \A r \in {shrink_to_fit(Before(k), v)} :
      ~r.thrown =>
        /\ Content(r, v) = Content(Cur, v)
        /\ IF size(Cur, v) > SMALL_SIZE
             THEN ~is_small(r, v) /\ capacity(r, v) = size(r, v)
             ELSE is_small(r, v) /\ capacity(r, v) = SMALL_SIZE
        /\ is_small(Cur, v) => r.vec = vec /\ r.heap = heap

\* C10 witness: shrink_to_fit takes a large vector with spare capacity and
\* more than SMALL_SIZE elements to capacity = size, and a large vector of
\* fewer than SMALL_SIZE elements to a small one
C10_Witness ==
  /\ \E v \in LiveVecs :
       /\ ~vec[v].small /\ vec[v].size > SMALL_SIZE
       /\ capacity(Cur, v) > vec[v].size
       /\ capacity(shrink_to_fit(Cur, v), v) = vec[v].size
  /\ \E v \in LiveVecs :
       /\ ~vec[v].small /\ vec[v].size < SMALL_SIZE
       /\ is_small(shrink_to_fit(Cur, v), v)
       /\ capacity(shrink_to_fit(Cur, v), v) > vec[v].size

\* C11: reserve.  After reserve(n) that does not throw, on any vector and
\* for any n, capacity() >= n and the size and the elements are unchanged.
\* When the vector is small and n <= SMALL_SIZE, or large with a unique
\* buffer of capacity >= n, the call cannot throw, copies nothing and
\* changes nothing: no allocation, same buffer, same mode.
C11_Reserve ==
  \A v \in LiveVecs, n \in 0..MaxReserve, k \in Fails :
    \A r \in {reserve(Before(k), v, n)} :
      /\ ~r.thrown =>
           capacity(r, v) >= n /\ Content(r, v) = Content(Cur, v)
      /\ ( (is_small(Cur, v) /\ n <= SMALL_SIZE)
           \/ (~is_small(Cur, v) /\ is_unique(Cur, v) /\ capacity(Cur, v) >= n) )
           => (~r.thrown /\ r.k = k /\ r.vec = vec /\ r.heap = heap)

\* C11 witness: a large vector with a unique buffer and spare capacity for
\* which reserve(capacity()) changes nothing, next to a vector that shares
\* its buffer and moves to a new buffer of the requested capacity
C11_Witness ==
  /\ \E v \in LiveVecs :
       /\ ~is_small(Cur, v) /\ is_unique(Cur, v)
       /\ size(Cur, v) < capacity(Cur, v)
       /\ reserve(Cur, v, capacity(Cur, v)) = Cur
  /\ \E v \in LiveVecs :
       /\ ~is_unique(Cur, v) /\ size(Cur, v) > 0
       /\ size(Cur, v) + 1 <= MaxReserve
       /\ ~reserve(Cur, v, size(Cur, v) + 1).thrown
       /\ reserve(Cur, v, size(Cur, v) + 1).vec[v].ld \in
            Fresh(reserve(Cur, v, size(Cur, v) + 1))
       /\ capacity(reserve(Cur, v, size(Cur, v) + 1), v) >= size(Cur, v) + 1

\* C12: clear.  clear() cannot throw and copies no element; afterwards
\* size() = 0 and capacity() and the mode are as before.  On a buffer that
\* other vectors share it drops exactly one reference to the old buffer
\* and binds the vector to a fresh buffer of the same capacity, refcnt 1
\* and no element; every other vector is as it was.  On a small vector or
\* a unique buffer it allocates nothing and keeps the buffer.
C12_Clear ==
  \A v \in LiveVecs, k \in Fails :
    \A r \in {clear(Before(k), v)} :
      /\ ~r.thrown /\ r.k = k
      /\ size(r, v) = 0
      /\ is_small(r, v) = is_small(Cur, v)
      /\ capacity(r, v) = capacity(Cur, v)
      /\ \A w \in Vecs \ {v} : r.vec[w] = vec[w]
      /\ IF is_unique(Cur, v)
           THEN /\ Fresh(r) = {}
                /\ r.vec[v].ld = vec[v].ld
           ELSE /\ Fresh(r) = {r.vec[v].ld}
                /\ r.heap[r.vec[v].ld] =
                     [alive |-> TRUE, capacity |-> capacity(Cur, v), refcnt |-> 1,
                      data |-> [i \in 1..capacity(Cur, v) |-> Raw]]
                /\ r.heap[vec[v].ld] = [heap[vec[v].ld] EXCEPT !.refcnt = @ - 1]

\* C12 witness: clear on a vector whose non-empty buffer another vector
\* shares, while the first element copy is set to fail
C12_Witness ==
  \E v \in LiveVecs, w \in LiveVecs :
    /\ v # w /\ SameBuffer(Cur, v, w) /\ size(Cur, v) > 0
    /\ ~clear(Before(1), v).thrown
    /\ Fresh(clear(Before(1), v)) # {}
    /\ Content(clear(Before(1), v), w) = Content(Cur, w)
    /\ Content(clear(Before(1), v), v) = <<>>

\* the number of constructed elements: in the small_data of the small
\* vectors and in the buffers
LiveElements(st) ==
  Cardinality({p \in AllVecs \X (1..SMALL_SIZE) :
                 /\ st.vec[p[1]].live /\ st.vec[p[1]].small
                 /\ st.vec[p[1]].sd[p[2]] # Raw})
  + Cardinality(UNION {{<<id, i>> : i \in {j \in DOMAIN st.heap[id].data :
                                             st.heap[id].data[j] # Raw}} :
                         id \in {b \in BufIds : st.heap[b].alive}})

\* safe_init_array of cnt elements of src into a raw destination of cap
\* slots, the i-th copy throwing: the i-1 elements constructed so far are
\* destructed, the last constructed first, and the destination is raw again
RolledBack(src, cap, cnt, i) ==
  \A q \in {safe_init_array(src, [j \in 1..cap |-> Raw], cnt, i)} :
    /\ q.thrown
    /\ q.undone = [j \in 1..(i - 1) |-> i - j]
    /\ q.dst = [j \in 1..cap |-> Raw]

\* the failure propagates from r, every vector has the elements it had, no
\* buffer is left over and the number of constructed elements is as before
BackToBaseline(r) ==
  /\ r.thrown
  /\ \A w \in LiveVecs : r.vec[w].live /\ Content(r, w) = Content(Cur, w)
  /\ \A w \in Vecs \ LiveVecs : ~r.vec[w].live
  /\ Fresh(r) = {}
  /\ LiveElements(r) = LiveElements(Cur)

\* the bulk copies of copy construction, privatization and push_back:
\* the i-th element copy fails
RollbackOfCopies ==
  /\ \A w \in LiveVecs, v \in Vecs \ LiveVecs, i \in 1..MaxFail :
       (is_small(Cur, w) /\ i <= size(Cur, w)) =>
         /\ RolledBack(vec[w].sd, SMALL_SIZE, size(Cur, w), i)
         /\ BackToBaseline(copy_ctor(Before(i), v, w))
  /\ \A v \in LiveVecs, i \in 1..MaxFail :
       (~is_unique(Cur, v) /\ i <= size(Cur, v)) =>
         /\ RolledBack(heap[vec[v].ld].data, capacity(Cur, v), size(Cur, v), i)
         /\ BackToBaseline(data(Before(i), v))
  /\ \A v \in LiveVecs, x \in Vals, i \in 1..MaxFail :
       (size(Cur, v) = capacity(Cur, v) /\ size(Cur, v) < MaxSize
        /\ i <= size(Cur, v)) =>
         /\ RolledBack(Deref(Cur, const_data(Cur, v)), 2 * capacity(Cur, v) + 1,
                       size(Cur, v), i)
         /\ BackToBaseline(push_back(Before(i), v, x))

C14_ShrinkThenReserve ==
  \A v \in LiveVecs, k \in Fails, k2 \in Fails :
    \A s \in {[shrink_to_fit(Before(k), v) EXCEPT !.k = k2]} :
      ~s.thrown => reserve(s, v, capacity(s, v)) = s

\* C14 witness: the three kinds of vector from which the shrink reallocates
\* or not: a vector that shares a buffer filled to its capacity (the shrink
\* leaves it shared), and a large vector with spare capacity (the shrink
\* reallocates or makes it small)
C14_Witness ==
  /\ \E v \in LiveVecs :
       /\ ~is_unique(Cur, v) /\ size(Cur, v) = capacity(Cur, v)
       /\ shrink_to_fit(Cur, v) = Cur
       /\ reserve(shrink_to_fit(Cur, v), v, capacity(Cur, v)) = Cur
  /\ \E v \in LiveVecs :
       /\ ~is_small(Cur, v) /\ size(Cur, v) < capacity(Cur, v)
       /\ shrink_to_fit(Cur, v) # Cur
       /\ ~shrink_to_fit(Cur, v).thrown

\* C15: the representation invariant.  In every state between public
\* operations (also after an operation that an exception ended) every
\* vector has size() <= capacity(), where capacity() is SMALL_SIZE for a
\* small vector and capacity_ of its buffer for a large one; a vector
\* tagged small holds at most SMALL_SIZE elements and no buffer; a vector
\* tagged large points to a live buffer.
C15_Representation ==
  \A v \in LiveVecs :
    /\ size(Cur, v) >= 0
    /\ IF is_small(Cur, v)
         THEN /\ size(Cur, v) <= SMALL_SIZE
              /\ capacity(Cur, v) = SMALL_SIZE
              /\ vec[v].ld = NoBuf
         ELSE /\ vec[v].ld \in BufIds
              /\ heap[vec[v].ld].alive
              /\ capacity(Cur, v) = heap[vec[v].ld].capacity
              /\ Len(heap[vec[v].ld].data) = heap[vec[v].ld].capacity
              /\ size(Cur, v) <= capacity(Cur, v)

\* C15 witness: a full small vector, a large vector filled to its capacity
\* and a large vector with spare capacity
C15_Witness ==
  /\ \E v \in LiveVecs : is_small(Cur, v) /\ size(Cur, v) = SMALL_SIZE
  /\ \E v \in LiveVecs :
       ~is_small(Cur, v) /\ size(Cur, v) = capacity(Cur, v) /\ size(Cur, v) > 0
  /\ \E v \in LiveVecs : ~is_small(Cur, v) /\ size(Cur, v) < capacity(Cur, v)

\* C16: privatization on mutable access.  The non-const data() (so the
\* mutable begin, end, operator[], front and back), when it returns, on a
\* large vector whose buffer has refcnt > 1: the vector points to a fresh
\* buffer with refcnt 1, the same capacity and copies of its elements, its
\* size is unchanged, the old buffer has one reference fewer and is
\* otherwise as it was, and every other vector is unchanged.  On a small
\* vector or a buffer with refcnt 1 it cannot throw, copies and allocates
\* nothing and changes no state.
C16_Privatization ==
  \A v \in LiveVecs, k \in Fails :
    \A r \in {data(Before(k), v)} :
      IF is_small(Cur, v) \/ heap[vec[v].ld].refcnt = 1
        THEN ~r.thrown /\ r.k = k /\ r.vec = vec /\ r.heap = heap
        ELSE ~r.thrown =>
               /\ Fresh(r) = {r.vec[v].ld}
               /\ r.heap[r.vec[v].ld].refcnt = 1
               /\ r.heap[r.vec[v].ld].capacity = heap[vec[v].ld].capacity
               /\ ~is_small(r, v)
               /\ size(r, v) = size(Cur, v)
               /\ Content(r, v) = Content(Cur, v)
               /\ r.heap[vec[v].ld] = [heap[vec[v].ld] EXCEPT !.refcnt = @ - 1]
               /\ \A w \in Vecs \ {v} : r.vec[w] = vec[w]
               /\ \A id \in BufIds \ {vec[v].ld, r.vec[v].ld} :
                    r.heap[id] = heap[id]

\* C16 witness: three vectors share a buffer with spare capacity and at
\* least one element, and one of them takes a mutable pointer
C16_Witness ==
  \E v \in LiveVecs :
    /\ ~is_small(Cur, v) /\ heap[vec[v].ld].refcnt = 3
    /\ size(Cur, v) > 0 /\ size(Cur, v) < capacity(Cur, v)
    /\ ~data(Cur, v).thrown
    /\ data(Cur, v).heap[vec[v].ld].refcnt = 2
    /\ data(Cur, v).vec[v].ld # vec[v].ld

\* the two cases in which reserve(n) is said to do nothing
ReserveNoOp(v, n) ==
  \/ is_small(Cur, v) /\ n <= SMALL_SIZE
  \/ ~is_small(Cur, v) /\ is_unique(Cur, v) /\ capacity(Cur, v) >= n

\* C17 as claimed: reserve(n) reallocates to exactly n.  Whenever the
\* vector is not small with n <= SMALL_SIZE and not large with a unique
\* buffer of capacity >= n, after reserve(n) capacity() = n, also when n is
\* below the capacity, when n <= SMALL_SIZE, and when the buffer is shared
\* and n <= size().
C17_ReserveExact ==
  \A v \in LiveVecs, n \in 0..MaxReserve, k \in Fails :
    \A r \in {reserve(Before(k), v, n)} :
      (~r.thrown /\ ~ReserveNoOp(v, n)) => capacity(r, v) = n

\* C17 as amended: outside the two no-op cases the buffer is shared with
\* other vectors, or n exceeds the capacity.  After a reserve(n) that
\* returns: if the buffer is shared and n <= size() nothing has changed
\* (the capacity is the old one, at least size()); otherwise, if n >
\* SMALL_SIZE the vector is large on a fresh buffer with refcnt 1 and
\* capacity() = n exactly, also when n is below the old capacity; and if
\* n <= SMALL_SIZE (a shared buffer with size() < n) the vector has become
\* small with capacity() = SMALL_SIZE.  The elements are unchanged.
C17_ReserveCapacity ==
  \A v \in LiveVecs, n \in 0..MaxReserve, k \in Fails :
    \A r \in {reserve(Before(k), v, n)} :
      (~r.thrown /\ ~ReserveNoOp(v, n)) =>
        /\ ~is_unique(Cur, v) \/ n > capacity(Cur, v)
        /\ Content(r, v) = Content(Cur, v)
        /\ IF ~is_unique(Cur, v) /\ n <= size(Cur, v)
             THEN r.vec = vec /\ r.heap = heap /\ r.k = k
           ELSE IF n > SMALL_SIZE
             THEN /\ ~is_small(r, v)
                  /\ capacity(r, v) = n
                  /\ r.vec[v].ld \in Fresh(r)
                  /\ r.heap[r.vec[v].ld].refcnt = 1
           ELSE /\ is_small(r, v)
                /\ capacity(r, v) = SMALL_SIZE

\* C17 witness: a vector that shares a buffer with spare capacity, for
\* which a reserve between size() and capacity() lowers the capacity to
\* what was asked for, and a reserve of at most size() changes nothing
C17_Witness ==
  \E v \in LiveVecs, n \in 0..MaxReserve :
    /\ ~is_unique(Cur, v)
    /\ size(Cur, v) > 0
    /\ size(Cur, v) < n /\ n < capacity(Cur, v)
    /\ ~reserve(Cur, v, n).thrown
    /\ capacity(reserve(Cur, v, n), v) = n
    /\ reserve(Cur, v, size(Cur, v)) = Cur

\* C18: the transition from large to small.  A shrink_to_fit that returns,
\* on a large vector with size() <= SMALL_SIZE and size() # capacity(),
\* makes the vector small with capacity SMALL_SIZE and the same size and
\* elements, allocates nothing, drops exactly one reference to the old
\* buffer (which is freed if and only if that was the last one) and leaves
\* every other vector and buffer as it was.  pop_back, erase and clear,
\* returning or throwing, leave the mode of the vector as it is.
C18_SharedToInline ==
  \A v \in LiveVecs, k \in Fails :
    /\ \A r \in {shrink_to_fit(Before(k), v)} :
         ( /\ ~is_small(Cur, v) /\ size(Cur, v) <= SMALL_SIZE
           /\ size(Cur, v) # capacity(Cur, v) /\ ~r.thrown ) =>
           /\ is_small(r, v)
           /\ capacity(r, v) = SMALL_SIZE
           /\ size(r, v) = size(Cur, v)
           /\ Content(r, v) = Content(Cur, v)
           /\ r.vec[v].ld = NoBuf
           /\ Fresh(r) = {}
           /\ r.heap[vec[v].ld] =
                IF heap[vec[v].ld].refcnt = 1 THEN NoHeader
                ELSE [heap[vec[v].ld] EXCEPT !.refcnt = @ - 1]
           /\ \A w \in Vecs \ {v} : r.vec[w] = vec[w]
           /\ \A id \in BufIds \ {vec[v].ld} : r.heap[id] = heap[id]
    /\ size(Cur, v) > 0 =>
         is_small(pop_back(Before(k), v), v) = is_small(Cur, v)
    /\ \A i \in 0..size(Cur, v) : \A len \in 0..(size(Cur, v) - i) :
         is_small(erase(Before(k), v, i, len), v) = is_small(Cur, v)
    /\ is_small(clear(Before(k), v), v) = is_small(Cur, v)

\* C18 witness: the scenario.  v is a copy of w, they share a buffer of
\* SMALL_SIZE + 1 elements; erasing the first element of v leaves v large
\* with the rest and w as it was; shrink_to_fit then makes v small with
\* capacity SMALL_SIZE, and w still holds the buffer
C18_Witness ==
  \E v \in LiveVecs, w \in LiveVecs :
    /\ v # w /\ SameBuffer(Cur, v, w) /\ size(Cur, v) = SMALL_SIZE + 1
    /\ \E e \in {erase(Cur, v, 0, 1)} :
         /\ ~e.thrown /\ ~is_small(e, v)
         /\ Content(e, v) = Tail(Content(Cur, v))
         /\ Content(e, w) = Content(Cur, w)
         /\ \E s \in {shrink_to_fit(e, v)} :
              /\ ~s.thrown /\ is_small(s, v)
              /\ capacity(s, v) = SMALL_SIZE
              /\ Content(s, v) = Tail(Content(Cur, v))
              /\ Content(s, w) = Content(Cur, w)
              /\ s.heap[vec[w].ld].alive

\* C19: sharers agree on the count.  In every state between public
\* operations all vectors that point to the same buffer have the same
\* size(), and the constructed elements of a buffer are exactly its first
\* size() slots: the release of the last reference destructs what was
\* constructed in the buffer, no more and no less.
C19_SharersAgree ==
  /\ \A v \in LiveVecs, w \in LiveVecs :
       SameBuffer(Cur, v, w) => size(Cur, v) = size(Cur, w)
  /\ \A v \in LiveVecs :
       ~is_small(Cur, v) =>
         \A i \in DOMAIN heap[vec[v].ld].data :
           (heap[vec[v].ld].data[i] # Raw) <=> (i <= size(Cur, v))

\* C19 witness: two vectors share a buffer with elements, and a pop_back
\* on one of them lowers its size and leaves the other on the old buffer
\* with the old size
C19_Witness ==
  \E v \in LiveVecs, w \in LiveVecs :
    /\ v # w /\ SameBuffer(Cur, v, w) /\ size(Cur, v) > 0
    /\ \E r \in {pop_back(Cur, v)} :
         /\ ~r.thrown
         /\ size(r, v) = size(Cur, v) - 1
         /\ size(r, w) = size(Cur, w)
         /\ ~SameBuffer(r, v, w)

\* C20: the position that erase returns.  For every range 0 <= first <=
\* last <= size(), erase(first, last) that returns gives the iterator at
\* index first of the vector after the call: the element that followed the
\* erased range, or end() of the shortened vector.
C20_EraseReturnsFirst ==
  \A v \in LiveVecs, k \in Fails :
    \A i \in 0..size(Cur, v) : \A len \in 0..(size(Cur, v) - i) :
      \A r \in {erase(Before(k), v, i, len)} :
        ~r.thrown => r.ret = i

====
